---- MODULE Spec2Model ----
(***************************************************************************)
(* A model of the four command-line utilities of go_cl_utils:              *)
(*   myWc     (src/myWc/myWc.go)         SpecWc                            *)
(*   myRotate (src/myRotate/myRotate.go) SpecRotate                        *)
(*   myFind   (src/myFind/myFind.go)     SpecFind                          *)
(*   myXargs  (src/myXargs/myXargs.go)   SpecXargs                         *)
(* Each utility is a process of its own; each specification runs one of    *)
(* them and leaves the variables of the other three untouched.             *)
(***************************************************************************)
EXTENDS Integers, Sequences, FiniteSets, TLC

VARIABLES
    \* ---- myWc ----
    wcFlags,      \* the parsed -l / -w / -m flags
    wcArgs,       \* flag.Args(): the positional paths
    wcKind,       \* the file system: what each path is
    mode,         \* the mode validateFlags returned (0 before it ran)
    files,        \* the shared map path -> count
    ranged,       \* the keys the launch loop's range iterator has yielded
    mapWriters,   \* the tasks inside a runtime map write (hashWriting)
    mutex,        \* the owner of the package mutex, 0 when unlocked
    taskPc,       \* each processFile goroutine's position
    taskRes,      \* each processFile goroutine's local res
    wg,           \* the WaitGroup counter
    wcMain,       \* main's position
    wcOut,        \* stdout: the printed <<count, path>> lines, in order
    wcErr,        \* stderr: the paths a diagnostic was written for
    \* ---- myRotate ----
    rotArgv,      \* os.Args[1:], a sequence of tokens
    rotDest,      \* *dest as flag.Parse left it
    rotFiles,     \* files: the catalogue ids of the paths to archive
    rotMain,      \* main's position
    rotWg,        \* the WaitGroup counter
    rotPc,        \* each goroutine's position
    rotFail,      \* each goroutine's failure, "none" while it has none
    rotFd,        \* the inode each goroutine's res refers to, 0 for none
    cwdDir,       \* the working directory: archive name -> inode
    destDir,      \* the destination directory: archive name -> inode
    inodes,       \* inode -> the header, body and trailer it holds
    rotOut,       \* stdout: the CREATED and ARCHIVED lines
    \* ---- myFind ----
    findFlags,    \* the command line: -sl, -f, -d, the -ext values, the rest
    slMode,       \* *slMode, *fMode, *dirMode once main has set them
    fMode,
    dirMode,
    exts,         \* the extentions slice that Set built
    walkPos,      \* how many entries filepath.Walk has visited
    findMain,     \* main's position
    findOut,      \* stdout, line by line
    findErr,      \* stderr: the paths reported "Permission denied"
    \* ---- myXargs ----
    xBase,        \* os.Args[1:]
    xStdin,       \* standard input, character by character
    xReadErr,     \* whether reading standard input ends in an error
    xPos,         \* the scanner's position in standard input
    arr,          \* arr
    xCmd,         \* the command exec.Command was given; run is false before that
    xExecErr,     \* the error CombinedOutput returned, "none" for nil
    xMain,        \* main's position
    xOut          \* stdout

wcVars == <<wcFlags, wcArgs, wcKind, mode, files, ranged, mapWriters, mutex,
            taskPc, taskRes, wg, wcMain, wcOut, wcErr>>

rotVars == <<rotArgv, rotDest, rotFiles, rotMain, rotWg, rotPc, rotFail, rotFd,
             cwdDir, destDir, inodes, rotOut>>

findVars == <<findFlags, slMode, fMode, dirMode, exts, walkPos, findMain,
              findOut, findErr>>

xVars == <<xBase, xStdin, xReadErr, xPos, arr, xCmd, xExecErr, xMain, xOut>>

vars == <<wcVars, rotVars, findVars, xVars>>

\* One utility runs; the other three stay as they are.
WcAlone == UNCHANGED <<rotVars, findVars, xVars>>

RotAlone == UNCHANGED <<wcVars, findVars, xVars>>

FindAlone == UNCHANGED <<wcVars, rotVars, xVars>>

XAlone == UNCHANGED <<wcVars, rotVars, findVars>>

(***************************************************************************)
(* Bounds.                                                                 *)
(***************************************************************************)
MaxWcPaths == 3

MaxRotFiles == 2

MaxExts == 2

MaxXBase == 2

MaxXStdin == 3

(***************************************************************************)
(* myWc: pure parts.                                                       *)
(***************************************************************************)
WcPaths == 1..MaxWcPaths

\* What os.Stat / IsRegular / os.Open make of a path: a regular file that
\* opens, a path that is no regular file (line 84), and a path for which
\* os.Stat or os.Open returns an error (lines 79, 92; both end in
\* handleFileErr).
WcKinds == {"regular", "notfile", "error"}

\* validateFlags: <<mode, ok>>.
validateFlags(lMode, wMode, mMode) ==
    LET count == (IF lMode THEN 1 ELSE 0) + (IF wMode THEN 1 ELSE 0)
                 + (IF mMode THEN 1 ELSE 0)
        m == IF mMode THEN 1 ELSE IF wMode THEN 2 ELSE IF lMode THEN 3 ELSE 0
    IN  IF count > 1 THEN <<0, FALSE>>
        ELSE IF count = 0 THEN <<2, TRUE>>
        ELSE <<m, TRUE>>

\* unicode.IsSpace on the characters the model's files hold.
IsSpace(c) == c \in {" ", "\t"}

\* len(strings.Fields(line)): the number of maximal runs of non-space.
RECURSIVE FieldsFrom(_, _, _)
FieldsFrom(line, i, inField) ==
    IF i > Len(line) THEN 0
    ELSE IF IsSpace(line[i]) THEN FieldsFrom(line, i + 1, FALSE)
    ELSE (IF inField THEN 0 ELSE 1) + FieldsFrom(line, i + 1, TRUE)

NumFields(line) == FieldsFrom(line, 1, FALSE)

\* utf8.RuneCountInString: every character of the model is one code point.
RuneCount(line) == Len(line)

\* One pass of the scanner loop's switch.
CountLine(line, m) ==
    CASE m = 3 -> 1
      [] m = 2 -> NumFields(line)
      [] m = 1 -> RuneCount(line) + 1
      [] OTHER -> 0

\* The scanner loop: res accumulated over the lines, in order.
RECURSIVE ScanFrom(_, _, _, _)
ScanFrom(lines, i, m, res) ==
    IF i > Len(lines) THEN res
    ELSE ScanFrom(lines, i + 1, m, res + CountLine(lines[i], m))

CountFile(lines, m) == ScanFrom(lines, 1, m, 0)

\* The content of the file at path p, as the scanner's lines: p - 1 lines,
\* line k holding k words; the first path is an empty file.
RECURSIVE WordsLine(_)
WordsLine(k) == IF k <= 1 THEN <<"x">> ELSE WordsLine(k - 1) \o <<" ", " ", "y">>

FileLines(p) == [k \in 1..(p - 1) |-> IF k % 2 = 0 THEN <<" ">> \o WordsLine(k)
                                                   ELSE WordsLine(k)]

\* delete(*files, path)
MapDelete(m, k) == [x \in (DOMAIN m) \ {k} |-> m[x]]

\* (*files)[path] = res, dropped: the result never reaches the shared map.
StoreResultLost(m, k, v) == m

\* (*files)[path] = res
StoreResult(m, k, v) == [x \in (DOMAIN m) \cup {k} |-> IF x = k THEN v ELSE m[x]]

Running(t) == taskPc[t] \notin {"idle", "done"}

(***************************************************************************)
(* myWc: the state machine.                                                *)
(***************************************************************************)
WcInit ==
    /\ wcFlags \in [l : BOOLEAN, w : BOOLEAN, m : BOOLEAN]
    /\ wcArgs \in {[i \in 1..n |-> i] : n \in 0..MaxWcPaths}
    /\ wcKind \in [WcPaths -> WcKinds]
    /\ \A p \in WcPaths : p > Len(wcArgs) => wcKind[p] = "regular"
    /\ mode = 0
    /\ files = << >>
    /\ ranged = {}
    /\ mapWriters = {}
    /\ mutex = 0
    /\ taskPc = [p \in WcPaths |-> "idle"]
    /\ taskRes = [p \in WcPaths |-> 0]
    /\ wg = 0
    /\ wcMain = "start"
    /\ wcOut = << >>
    /\ wcErr = {}

\* main, lines 33-49: flags, the positional arguments, the map.
WcMainStart ==
    /\ WcAlone
    /\ wcMain = "start"
    /\ LET v == validateFlags(wcFlags.l, wcFlags.w, wcFlags.m)
       IN  IF ~v[2] \/ Len(wcArgs) < 1
           THEN /\ wcMain' = "panic"
                /\ UNCHANGED <<mode, files>>
           ELSE /\ mode' = v[1]
                /\ files' = [p \in {wcArgs[i] : i \in 1..Len(wcArgs)} |-> 0]
                /\ wcMain' = "range"
    /\ UNCHANGED <<wcFlags, wcArgs, wcKind, ranged, mapWriters, mutex, taskPc,
                   taskRes, wg, wcOut, wcErr>>

\* main, lines 53-56: the range iterator yields another key, in any order
\* (Go randomises it), and the goroutine for it is started.
WcMainSpawn ==
    /\ WcAlone
    /\ wcMain = "range"
    /\ \E p \in (DOMAIN files) \ ranged :
        /\ taskPc[p] = "idle"
        /\ ranged' = ranged \cup {p}
        /\ wg' = wg + 1
        /\ taskPc' = [taskPc EXCEPT ![p] = "run"]
    /\ UNCHANGED <<wcFlags, wcArgs, wcKind, mode, files, mapWriters, mutex,
                   taskRes, wcMain, wcOut, wcErr>>

\* main, line 53: the iterator finds no further key; main goes on to Wait.
WcMainRangeEnd ==
    /\ WcAlone
    /\ wcMain = "range"
    /\ (DOMAIN files) \ ranged = {}
    /\ wcMain' = "wait"
    /\ UNCHANGED <<wcFlags, wcArgs, wcKind, mode, files, ranged, mapWriters,
                   mutex, taskPc, taskRes, wg, wcOut, wcErr>>

\* main, line 53 against lines 68, 86, 113: the iterator advances while a
\* goroutine is inside a map write. The accesses race; the runtime's check
\* may end the process ("concurrent map iteration and map write").
WcMainRangeFatal ==
    /\ WcAlone
    /\ wcMain = "range"
    /\ mapWriters # {}
    /\ wcMain' = "fatal"
    /\ UNCHANGED <<wcFlags, wcArgs, wcKind, mode, files, ranged, mapWriters,
                   mutex, taskPc, taskRes, wg, wcOut, wcErr>>

\* main, line 57: wg.Wait() returns once the counter is zero.
WcMainWait ==
    /\ WcAlone
    /\ wcMain = "wait"
    /\ wg = 0
    /\ wcMain' = "print"
    /\ UNCHANGED <<wcFlags, wcArgs, wcKind, mode, files, ranged, mapWriters,
                   mutex, taskPc, taskRes, wg, wcOut, wcErr>>

Printed == {wcOut[i][2] : i \in 1..Len(wcOut)}

\* main, lines 60-62: one line per key of the map, in any order.
WcMainPrint ==
    /\ WcAlone
    /\ wcMain = "print"
    /\ \E p \in (DOMAIN files) \ Printed :
        wcOut' = Append(wcOut, <<files[p], p>>)
    /\ UNCHANGED <<wcFlags, wcArgs, wcKind, mode, files, ranged, mapWriters,
                   mutex, taskPc, taskRes, wg, wcMain, wcErr>>

WcMainDone ==
    /\ WcAlone
    /\ wcMain = "print"
    /\ (DOMAIN files) \ Printed = {}
    /\ wcMain' = "done"
    /\ UNCHANGED <<wcFlags, wcArgs, wcKind, mode, files, ranged, mapWriters,
                   mutex, taskPc, taskRes, wg, wcOut, wcErr>>

\* processFile, lines 78-95 on a path that fails Stat, IsRegular or Open:
\* the diagnostic, then delete enters the map, with the mutex not taken.
TaskFailDelete(t) ==
    /\ WcAlone
    /\ wcMain \in {"range", "wait"}
    /\ taskPc[t] = "run"
    /\ wcKind[t] # "regular"
    /\ wcErr' = wcErr \cup {t}
    /\ mapWriters' = mapWriters \cup {t}
    /\ taskPc' = [taskPc EXCEPT ![t] = "deleting"]
    /\ UNCHANGED <<wcFlags, wcArgs, wcKind, mode, files, ranged, mutex,
                   taskRes, wg, wcMain, wcOut>>

\* lines 68, 86 and the return after them: the key is gone; the deferred
\* wg.Done() has not run yet.
TaskDeleteEnd(t) ==
    /\ WcAlone
    /\ wcMain \in {"range", "wait"}
    /\ taskPc[t] = "deleting"
    /\ files' = MapDelete(files, t)
    /\ mapWriters' = mapWriters \ {t}
    /\ taskPc' = [taskPc EXCEPT ![t] = "returning"]
    /\ UNCHANGED <<wcFlags, wcArgs, wcKind, mode, ranged, mutex, taskRes, wg,
                   wcMain, wcOut, wcErr>>

\* processFile, lines 78-109 on a regular, readable file: the scanner loop.
TaskScan(t) ==
    /\ WcAlone
    /\ wcMain \in {"range", "wait"}
    /\ taskPc[t] = "run"
    /\ wcKind[t] = "regular"
    /\ taskRes' = [taskRes EXCEPT ![t] = CountFile(FileLines(t), mode)]
    /\ taskPc' = [taskPc EXCEPT ![t] = "counted"]
    /\ UNCHANGED <<wcFlags, wcArgs, wcKind, mode, files, ranged, mapWriters,
                   mutex, wg, wcMain, wcOut, wcErr>>

\* lines 112-113: mutex.Lock(), then the assignment enters the map.
TaskLock(t) ==
    /\ WcAlone
    /\ wcMain \in {"range", "wait"}
    /\ taskPc[t] = "counted"
    /\ mutex = 0
    /\ mutex' = t
    /\ mapWriters' = mapWriters \cup {t}
    /\ taskPc' = [taskPc EXCEPT ![t] = "writing"]
    /\ UNCHANGED <<wcFlags, wcArgs, wcKind, mode, files, ranged, taskRes, wg,
                   wcMain, wcOut, wcErr>>

\* lines 113-114: the store, then mutex.Unlock(). The mutex is free and the
\* result is in the map; the deferred wg.Done() has not run yet.
TaskStore(t) ==
    /\ WcAlone
    /\ wcMain \in {"range", "wait"}
    /\ taskPc[t] = "writing"
    /\ files' = StoreResult(files, t, taskRes[t])
    /\ mapWriters' = mapWriters \ {t}
    /\ mutex' = 0
    /\ taskPc' = [taskPc EXCEPT ![t] = "returning"]
    /\ UNCHANGED <<wcFlags, wcArgs, wcKind, mode, ranged, taskRes, wg, wcMain,
                   wcOut, wcErr>>

\* line 73, run as processFile returns (lines 81, 87, 94, 115): the
\* deferred wg.Done() signals the task's completion.
TaskDone(t) ==
    /\ WcAlone
    /\ wcMain \in {"range", "wait"}
    /\ taskPc[t] = "returning"
    /\ wg' = wg - 1
    /\ taskPc' = [taskPc EXCEPT ![t] = "done"]
    /\ UNCHANGED <<wcFlags, wcArgs, wcKind, mode, files, ranged, mapWriters,
                   mutex, taskRes, wcMain, wcOut, wcErr>>

\* lines 68, 86, 113 against each other: two goroutines are inside a map
\* write at once. The writes race; the runtime's check may end the
\* process ("concurrent map writes").
TaskWriteFatal ==
    /\ WcAlone
    /\ wcMain \in {"range", "wait"}
    /\ Cardinality(mapWriters) > 1
    /\ wcMain' = "fatal"
    /\ UNCHANGED <<wcFlags, wcArgs, wcKind, mode, files, ranged, mapWriters,
                   mutex, taskPc, taskRes, wg, wcOut, wcErr>>

\* myWc is not running.
WcIdle ==
    /\ wcFlags = [l |-> FALSE, w |-> FALSE, m |-> FALSE]
    /\ wcArgs = << >>
    /\ wcKind = [p \in WcPaths |-> "regular"]
    /\ mode = 0
    /\ files = << >>
    /\ ranged = {}
    /\ mapWriters = {}
    /\ mutex = 0
    /\ taskPc = [p \in WcPaths |-> "idle"]
    /\ taskRes = [p \in WcPaths |-> 0]
    /\ wg = 0
    /\ wcMain = "off"
    /\ wcOut = << >>
    /\ wcErr = {}

WcNext ==
    \/ WcMainStart
    \/ WcMainSpawn
    \/ WcMainRangeEnd
    \/ WcMainRangeFatal
    \/ WcMainWait
    \/ WcMainPrint
    \/ WcMainDone
    \/ TaskWriteFatal
    \/ \E t \in WcPaths : TaskFailDelete(t)
    \/ \E t \in WcPaths : TaskDeleteEnd(t)
    \/ \E t \in WcPaths : TaskScan(t)
    \/ \E t \in WcPaths : TaskLock(t)
    \/ \E t \in WcPaths : TaskStore(t)
    \/ \E t \in WcPaths : TaskDone(t)

(***************************************************************************)
(* myRotate: pure parts.                                                   *)
(***************************************************************************)
\* The files on disk the command line may name: two logs of the same name and
\* modification time in different directories, a third log, a file that is
\* no log, and a path that does not exist.
Catalogue ==
    <<[dir |-> "a", name |-> <<"a", "p", "p", ".", "l", "o", "g">>, mtime |-> 7,
       exists |-> TRUE, content |-> <<"e", "r", "r">>],
      [dir |-> "b", name |-> <<"a", "p", "p", ".", "l", "o", "g">>, mtime |-> 7,
       exists |-> TRUE, content |-> <<"o", "k">>],
      [dir |-> "a", name |-> <<"s", "y", "s", ".", "l", "o", "g">>, mtime |-> 120,
       exists |-> TRUE, content |-> <<"u", "p">>],
      [dir |-> "a", name |-> <<"a", "p", "p", ".", "t", "x", "t">>, mtime |-> 7,
       exists |-> TRUE, content |-> <<"t">>],
      [dir |-> "a", name |-> <<"o", "l", "d", ".", "l", "o", "g">>, mtime |-> 7,
       exists |-> FALSE, content |-> << >>]>>

FileIds == 1..Len(Catalogue)

\* What os.Stat(*dest) finds: "" names nothing.
DestKind(d) ==
    CASE d = "out" -> "dir"
      [] d = "plain" -> "file"
      [] OTHER -> "missing"

DotLog == <<".", "l", "o", "g">>

TarGz == <<".", "t", "a", "r", ".", "g", "z">>

\* strings.HasSuffix
HasSuffix(str, suffix) ==
    /\ Len(str) >= Len(suffix)
    /\ SubSeq(str, Len(str) - Len(suffix) + 1, Len(str)) = suffix

\* strings.CutSuffix: <<the string without the suffix, found>>.
CutSuffix(str, suffix) ==
    IF HasSuffix(str, suffix)
    THEN <<SubSeq(str, 1, Len(str) - Len(suffix)), TRUE>>
    ELSE <<str, FALSE>>

Digit(d) == <<"0", "1", "2", "3", "4", "5", "6", "7", "8", "9">>[d + 1]

\* fmt's %d of a non-negative integer.
RECURSIVE Decimal(_)
Decimal(n) == IF n < 10 THEN <<Digit(n)>> ELSE Decimal(n \div 10) \o <<Digit(n % 10)>>

\* getArchiveName: <<name, ok>>.
getArchiveName(info) ==
    LET cut == CutSuffix(info.name, DotLog)
    IN  IF ~cut[2] THEN <<<< >>, FALSE>>
        ELSE <<cut[1] \o <<"_">> \o Decimal(info.mtime) \o TarGz, TRUE>>

\* flag.Parse on os.Args[1:]: the value of -a, "" when it is not given.
ParseDest(argv) ==
    IF Len(argv) >= 1 /\ argv[1].k = "flageq" THEN argv[1].d
    ELSE IF Len(argv) >= 2 /\ argv[1].k = "flag" THEN argv[2].d
    ELSE ""

\* Lines 44-49: os.Args[1:] without -a, os.Args[3:] with it; <<files, ok>>,
\* ok false when os.Args is too short to slice from 3.
ArgFiles(argv, d) ==
    IF d = "" THEN <<argv, TRUE>>
    ELSE IF Len(argv) < 2 THEN <<<< >>, FALSE>>
    ELSE <<SubSeq(argv, 3, Len(argv)), TRUE>>

FileToken(f) == [k |-> "file", f |-> f, d |-> ""]

\* The command lines: no -a, "-a dir" and "-a=dir", then up to MaxRotFiles
\* distinct files of the catalogue.
FileLists ==
    {fs \in UNION {[1..n -> FileIds] : n \in 0..MaxRotFiles} :
        \A i, j \in DOMAIN fs : i < j => fs[i] < fs[j]}

CommandLines ==
    {[i \in 1..Len(fs) |-> FileToken(fs[i])] : fs \in FileLists}
    \cup {<<[k |-> "flag", f |-> 0, d |-> ""], [k |-> "value", f |-> 0, d |-> d]>>
            \o [i \in 1..Len(fs) |-> FileToken(fs[i])] :
          fs \in FileLists, d \in {"out", "plain", "nodir"}}
    \cup {<<[k |-> "flageq", f |-> 0, d |-> d]>>
            \o [i \in 1..Len(fs) |-> FileToken(fs[i])] :
          fs \in FileLists, d \in {"out", "plain", "nodir"}}

RotTasks == 1..MaxRotFiles

\* os.Stat of a files entry: only a file token names something on disk.
StatOk(tok) == tok.k = "file" /\ Catalogue[tok.f].exists

EmptyFile == [hdr |-> << >>, body |-> << >>, trl |-> << >>]

\* tar.FileInfoHeader: the entry's name, size and modification time.
Header(info) == <<"hdr", info.name, Len(info.content), info.mtime>>

\* What closing the tar and gzip writers appends: the end of the stream,
\* with the checksum of what was written through them.
Trailer(info) == <<"eof", Header(info), info.content>>

\* What io.Copy leaves in the file when it fails partway.
PartialCopy == <<"partial">>

\* What the deferred closes append when fillArchive returns an error: the
\* end of a stream that holds no whole entry.
EndOfStream == <<"eof">>

Bind(dirf, name, ino) ==
    [x \in (DOMAIN dirf) \cup {name} |-> IF x = name THEN ino ELSE dirf[x]]

Unbind(dirf, name) == [x \in (DOMAIN dirf) \ {name} |-> dirf[x]]

\* Lines 36-41: os.Stat(*dest), CheckErr, IsDir.
DestOutcome(d) ==
    CASE DestKind(d) = "missing" -> "panic"
      [] DestKind(d) = "file" -> "returned"
      [] OTHER -> "ok"

(***************************************************************************)
(* myRotate: the state machine.                                            *)
(***************************************************************************)
RotInit ==
    /\ rotArgv \in CommandLines
    /\ rotDest = ""
    /\ rotFiles = << >>
    /\ rotMain = "start"
    /\ rotWg = 0
    /\ rotPc = [t \in RotTasks |-> "idle"]
    /\ rotFail = [t \in RotTasks |-> "none"]
    /\ rotFd = [t \in RotTasks |-> 0]
    /\ cwdDir = << >>
    /\ destDir = << >>
    /\ inodes = << >>
    /\ rotOut = {}

\* myRotate is not running.
RotIdle ==
    /\ rotArgv = << >>
    /\ rotDest = ""
    /\ rotFiles = << >>
    /\ rotMain = "off"
    /\ rotWg = 0
    /\ rotPc = [t \in RotTasks |-> "idle"]
    /\ rotFail = [t \in RotTasks |-> "none"]
    /\ rotFd = [t \in RotTasks |-> 0]
    /\ cwdDir = << >>
    /\ destDir = << >>
    /\ inodes = << >>
    /\ rotOut = {}

\* main, lines 32-54: the flag, the destination check, the file list.
RotMainStart ==
    /\ RotAlone
    /\ rotMain = "start"
    /\ LET d == ParseDest(rotArgv)
           fl == ArgFiles(rotArgv, d)
       IN  /\ rotDest' = d
           /\ IF DestOutcome(d) # "ok"
              THEN /\ rotMain' = DestOutcome(d)
                   /\ UNCHANGED rotFiles
              ELSE IF ~fl[2] \/ Len(fl[1]) < 1
              THEN /\ rotMain' = "panic"
                   /\ UNCHANGED rotFiles
              ELSE /\ rotMain' = "spawn"
                   /\ rotFiles' = fl[1]
    /\ UNCHANGED <<rotArgv, rotWg, rotPc, rotFail, rotFd, cwdDir, destDir,
                   inodes, rotOut>>

\* main, lines 58-60: the next path's goroutine is started, in slice order.
RotMainSpawn ==
    /\ RotAlone
    /\ rotMain = "spawn"
    /\ \E t \in 1..Len(rotFiles) :
        /\ rotPc[t] = "idle"
        /\ \A u \in 1..(t - 1) : rotPc[u] # "idle"
        /\ rotWg' = rotWg + 1
        /\ rotPc' = [rotPc EXCEPT ![t] = "create"]
    /\ UNCHANGED <<rotArgv, rotDest, rotFiles, rotMain, rotFail, rotFd, cwdDir,
                   destDir, inodes, rotOut>>

\* main, line 58: the loop is over.
RotMainSpawnEnd ==
    /\ RotAlone
    /\ rotMain = "spawn"
    /\ \A t \in 1..Len(rotFiles) : rotPc[t] # "idle"
    /\ rotMain' = "wait"
    /\ UNCHANGED <<rotArgv, rotDest, rotFiles, rotWg, rotPc, rotFail, rotFd,
                   cwdDir, destDir, inodes, rotOut>>

\* main, line 93: wg.Wait(), and main returns.
RotMainWait ==
    /\ RotAlone
    /\ rotMain = "wait"
    /\ rotWg = 0
    /\ rotMain' = "done"
    /\ UNCHANGED <<rotArgv, rotDest, rotFiles, rotWg, rotPc, rotFail, rotFd,
                   cwdDir, destDir, inodes, rotOut>>

RotLive == rotMain \in {"spawn", "wait"}

Info(t) == Catalogue[rotFiles[t].f]

ArchiveName(t) == getArchiveName(Info(t))[1]

\* The goroutine returns early: the deferred wg.Done() has not run yet.
RotEnd(t, why) ==
    /\ rotPc' = [rotPc EXCEPT ![t] = "returning"]
    /\ rotFail' = [rotFail EXCEPT ![t] = why]

\* Lines 62-71: Stat fails, or the name does not end in .log.
RotTaskSkip(t) ==
    /\ RotAlone
    /\ RotLive
    /\ rotPc[t] = "create"
    /\ \/ ~StatOk(rotFiles[t]) /\ RotEnd(t, "stat")
       \/ StatOk(rotFiles[t]) /\ ~getArchiveName(Info(t))[2] /\ RotEnd(t, "name")
    /\ UNCHANGED <<rotArgv, rotDest, rotFiles, rotMain, rotWg, rotFd, cwdDir,
                   destDir, inodes, rotOut>>

\* Lines 73-77: os.Create fails.
RotTaskCreateFail(t) ==
    /\ RotAlone
    /\ RotLive
    /\ rotPc[t] = "create"
    /\ StatOk(rotFiles[t])
    /\ getArchiveName(Info(t))[2]
    /\ RotEnd(t, "create")
    /\ UNCHANGED <<rotArgv, rotDest, rotFiles, rotMain, rotWg, rotFd, cwdDir,
                   destDir, inodes, rotOut>>

\* Lines 62-79: os.Create makes the archive, or truncates the file of that
\* name that is already there.
RotTaskCreate(t) ==
    /\ RotAlone
    /\ RotLive
    /\ rotPc[t] = "create"
    /\ StatOk(rotFiles[t])
    /\ getArchiveName(Info(t))[2]
    /\ LET name == ArchiveName(t)
           ino == IF name \in DOMAIN cwdDir THEN cwdDir[name] ELSE t
       IN  /\ cwdDir' = Bind(cwdDir, name, ino)
           /\ inodes' = Bind(inodes, ino, EmptyFile)
           /\ rotFd' = [rotFd EXCEPT ![t] = ino]
    /\ rotOut' = rotOut \cup {<<"CREATED", ArchiveName(t)>>}
    /\ rotPc' = [rotPc EXCEPT ![t] = "header"]
    /\ UNCHANGED <<rotArgv, rotDest, rotFiles, rotMain, rotWg, rotFail, destDir>>

\* fillArchive, lines 132-152: os.Open or the header fails. On the error
\* return the deferred tw.Close() and gw.Close() still run: unless their own
\* write fails too, they put the end of an archive without an entry at the
\* descriptor's offset, the start of the file.
RotTaskHeaderFail(t) ==
    /\ RotAlone
    /\ RotLive
    /\ rotPc[t] = "header"
    /\ \E why \in {"open", "header"} : rotFail' = [rotFail EXCEPT ![t] = why]
    /\ \E wrote \in BOOLEAN :
        inodes' = IF wrote THEN [inodes EXCEPT ![rotFd[t]].hdr = EndOfStream]
                  ELSE inodes
    /\ rotPc' = [rotPc EXCEPT ![t] = "rm"]
    /\ UNCHANGED <<rotArgv, rotDest, rotFiles, rotMain, rotWg, rotFd, cwdDir,
                   destDir, rotOut>>

\* fillArchive, lines 132-152: the source is open, the header is written.
RotTaskHeader(t) ==
    /\ RotAlone
    /\ RotLive
    /\ rotPc[t] = "header"
    /\ inodes' = [inodes EXCEPT ![rotFd[t]].hdr = Header(Info(t))]
    /\ rotPc' = [rotPc EXCEPT ![t] = "copy"]
    /\ UNCHANGED <<rotArgv, rotDest, rotFiles, rotMain, rotWg, rotFail, rotFd,
                   cwdDir, destDir, rotOut>>

\* fillArchive, lines 132-158: io.Copy fails partway. On the error return
\* the deferred tw.Close() and gw.Close() still run: unless their own write
\* fails too, they end the stream after the part that was copied.
RotTaskCopyFail(t) ==
    /\ RotAlone
    /\ RotLive
    /\ rotPc[t] = "copy"
    /\ \E wrote \in BOOLEAN :
        inodes' = IF wrote
                  THEN [inodes EXCEPT ![rotFd[t]].body = PartialCopy,
                                      ![rotFd[t]].trl = EndOfStream]
                  ELSE [inodes EXCEPT ![rotFd[t]].body = PartialCopy]
    /\ rotFail' = [rotFail EXCEPT ![t] = "copy"]
    /\ rotPc' = [rotPc EXCEPT ![t] = "rm"]
    /\ UNCHANGED <<rotArgv, rotDest, rotFiles, rotMain, rotWg, rotFd, cwdDir,
                   destDir, rotOut>>

\* fillArchive, lines 155-160: the content is copied.
RotTaskCopy(t) ==
    /\ RotAlone
    /\ RotLive
    /\ rotPc[t] = "copy"
    /\ inodes' = [inodes EXCEPT ![rotFd[t]].body = Info(t).content]
    /\ rotOut' = rotOut \cup {<<"ARCHIVED", rotFiles[t].f>>}
    /\ rotPc' = [rotPc EXCEPT ![t] = "close"]
    /\ UNCHANGED <<rotArgv, rotDest, rotFiles, rotMain, rotWg, rotFail, rotFd,
                   cwdDir, destDir>>

\* fillArchive, lines 133 and 136: the deferred tw.Close() and gw.Close()
\* fail; their errors are dropped and fillArchive returns nil.
RotTaskCloseFail(t) ==
    /\ RotAlone
    /\ RotLive
    /\ rotPc[t] = "close"
    /\ rotFail' = [rotFail EXCEPT ![t] = "close"]
    /\ rotPc' = [rotPc EXCEPT ![t] = "mv"]
    /\ UNCHANGED <<rotArgv, rotDest, rotFiles, rotMain, rotWg, rotFd, cwdDir,
                   destDir, inodes, rotOut>>

\* fillArchive, lines 133 and 136: the deferred closes flush the stream.
RotTaskClose(t) ==
    /\ RotAlone
    /\ RotLive
    /\ rotPc[t] = "close"
    /\ inodes' = [inodes EXCEPT ![rotFd[t]].trl = Trailer(Info(t))]
    /\ rotPc' = [rotPc EXCEPT ![t] = "mv"]
    /\ UNCHANGED <<rotArgv, rotDest, rotFiles, rotMain, rotWg, rotFail, rotFd,
                   cwdDir, destDir, rotOut>>

\* Lines 82-86, removeArchive: rm name; rm fails when the name is gone.
RotTaskRemove(t) ==
    /\ RotAlone
    /\ RotLive
    /\ rotPc[t] = "rm"
    /\ cwdDir' = Unbind(cwdDir, ArchiveName(t))
    /\ rotPc' = [rotPc EXCEPT ![t] = "returning"]
    /\ UNCHANGED <<rotArgv, rotDest, rotFiles, rotMain, rotWg, rotFail, rotFd,
                   destDir, inodes, rotOut>>

\* Lines 88-90, moveArchive: mv name dest when a destination was given; mv
\* fails when the name is gone.
RotTaskMove(t) ==
    /\ RotAlone
    /\ RotLive
    /\ rotPc[t] = "mv"
    /\ LET name == ArchiveName(t)
       IN  IF rotDest # "" /\ name \in DOMAIN cwdDir
           THEN /\ destDir' = Bind(destDir, name, cwdDir[name])
                /\ cwdDir' = Unbind(cwdDir, name)
           ELSE UNCHANGED <<cwdDir, destDir>>
    /\ rotPc' = [rotPc EXCEPT ![t] = "returning"]
    /\ UNCHANGED <<rotArgv, rotDest, rotFiles, rotMain, rotWg, rotFail, rotFd,
                   inodes, rotOut>>

\* Line 61, run as the goroutine returns (lines 65, 70, 76, 85, 91): the
\* deferred wg.Done() signals the goroutine's completion.
RotTaskDone(t) ==
    /\ RotAlone
    /\ RotLive
    /\ rotPc[t] = "returning"
    /\ rotWg' = rotWg - 1
    /\ rotPc' = [rotPc EXCEPT ![t] = "done"]
    /\ UNCHANGED <<rotArgv, rotDest, rotFiles, rotMain, rotFail, rotFd, cwdDir,
                   destDir, inodes, rotOut>>

RotNext ==
    \/ RotMainStart
    \/ RotMainSpawn
    \/ RotMainSpawnEnd
    \/ RotMainWait
    \/ \E t \in RotTasks : RotTaskSkip(t)
    \/ \E t \in RotTasks : RotTaskCreateFail(t)
    \/ \E t \in RotTasks : RotTaskCreate(t)
    \/ \E t \in RotTasks : RotTaskHeaderFail(t)
    \/ \E t \in RotTasks : RotTaskHeader(t)
    \/ \E t \in RotTasks : RotTaskCopyFail(t)
    \/ \E t \in RotTasks : RotTaskCopy(t)
    \/ \E t \in RotTasks : RotTaskCloseFail(t)
    \/ \E t \in RotTasks : RotTaskClose(t)
    \/ \E t \in RotTasks : RotTaskRemove(t)
    \/ \E t \in RotTasks : RotTaskMove(t)
    \/ \E t \in RotTasks : RotTaskDone(t)

(***************************************************************************)
(* myFind: pure parts.                                                     *)
(***************************************************************************)
\* The tree under the directory d, in filepath.Walk's order (a directory,
\* then its entries by name): kind is what the Lstat mode says, readable is
\* the owner's read bit (0400), resolves is whether
\* filepath.EvalSymlinks(info.Name()) finds a target.
Tree ==
    <<[path |-> <<"d">>, name |-> <<"d">>, kind |-> "dir", readable |-> TRUE,
       resolves |-> FALSE, target |-> << >>],
      [path |-> <<"d", "/", "k", ".", "g", "o">>, name |-> <<"k", ".", "g", "o">>,
       kind |-> "file", readable |-> FALSE, resolves |-> FALSE, target |-> << >>],
      [path |-> <<"d", "/", "l">>, name |-> <<"l">>, kind |-> "symlink",
       readable |-> TRUE, resolves |-> FALSE, target |-> << >>],
      [path |-> <<"d", "/", "m">>, name |-> <<"m">>, kind |-> "symlink",
       readable |-> TRUE, resolves |-> TRUE, target |-> <<"m">>],
      [path |-> <<"d", "/", "s">>, name |-> <<"s">>, kind |-> "dir",
       readable |-> TRUE, resolves |-> FALSE, target |-> << >>],
      [path |-> <<"d", "/", "s", "/", "y", ".", "g", "o">>,
       name |-> <<"y", ".", "g", "o">>, kind |-> "file", readable |-> TRUE,
       resolves |-> FALSE, target |-> << >>],
      [path |-> <<"d", "/", "t", "x", "t">>, name |-> <<"t", "x", "t">>,
       kind |-> "file", readable |-> TRUE, resolves |-> FALSE, target |-> << >>],
      [path |-> <<"d", "/", "x", ".", "t", "x", "t">>,
       name |-> <<"x", ".", "t", "x", "t">>, kind |-> "file", readable |-> TRUE,
       resolves |-> FALSE, target |-> << >>]>>

\* What os.Stat makes of the positional argument.
RootKind(r) ==
    CASE r = "d" -> "dir"
      [] r = "f" -> "file"
      [] OTHER -> "missing"

Alnum == {"t", "x", "g", "o", "2"}

\* validExt: ^[a-zA-Z0-9]+$
validExt(val) == Len(val) > 0 /\ \A i \in 1..Len(val) : val[i] \in Alnum

\* The values -ext may be given.
ExtValues == {<<"t", "x", "t">>, <<"g", "o">>, <<"t", ".", "x">>, << >>}

\* flag.Parse calling Set for each -ext value in turn: <<extentions, ok>>.
RECURSIVE SetAll(_, _, _)
SetAll(vals, i, e) ==
    IF i > Len(vals) THEN <<e, TRUE>>
    ELSE IF ~validExt(vals[i]) THEN <<e, FALSE>>
    ELSE SetAll(vals, i + 1, Append(e, <<".">> \o vals[i]))

PlainLine(path) == [path |-> path, link |-> FALSE, target |-> << >>]

Broken == <<"[", "b", "r", "o", "k", "e", "n", "]">>

\* processExt: the lines it prints, one per extension the path ends with.
RECURSIVE processExt(_, _, _)
processExt(path, e, i) ==
    IF i > Len(e) THEN << >>
    ELSE (IF HasSuffix(path, e[i]) THEN <<PlainLine(path)>> ELSE << >>)
         \o processExt(path, e, i + 1)

\* printEntity: the lines it prints for one entry.
printEntity(ent, dm, fm, sm, e) ==
    IF ent.kind = "dir" /\ dm THEN <<PlainLine(ent.path)>>
    ELSE IF ent.kind = "file" /\ fm
    THEN IF Len(e) > 0 THEN processExt(ent.path, e, 1) ELSE <<PlainLine(ent.path)>>
    ELSE IF ent.kind = "symlink" /\ sm
    THEN <<[path |-> ent.path, link |-> TRUE,
            target |-> IF ent.resolves THEN ent.target ELSE Broken]>>
    ELSE << >>

(***************************************************************************)
(* myFind: the state machine.                                              *)
(***************************************************************************)
FindInit ==
    /\ findFlags \in [sl : BOOLEAN, f : BOOLEAN, d : BOOLEAN,
                      ext : UNION {[1..n -> ExtValues] : n \in 0..MaxExts},
                      args : {<< >>, <<"d">>, <<"f">>, <<"none">>, <<"d", "d">>}]
    /\ slMode = FALSE
    /\ fMode = FALSE
    /\ dirMode = FALSE
    /\ exts = << >>
    /\ walkPos = 0
    /\ findMain = "start"
    /\ findOut = << >>
    /\ findErr = {}

\* myFind is not running.
FindIdle ==
    /\ findFlags = [sl |-> FALSE, f |-> FALSE, d |-> FALSE, ext |-> << >>,
                    args |-> << >>]
    /\ slMode = FALSE
    /\ fMode = FALSE
    /\ dirMode = FALSE
    /\ exts = << >>
    /\ walkPos = 0
    /\ findMain = "off"
    /\ findOut = << >>
    /\ findErr = {}

\* main, lines 33-63: flag.Parse (an invalid -ext value ends the process
\* with status 2), the -f check, the defaults, the root.
FindMainStart ==
    /\ FindAlone
    /\ findMain = "start"
    /\ LET set == SetAll(findFlags.ext, 1, << >>)
           none == ~findFlags.sl /\ ~findFlags.f /\ ~findFlags.d
       IN  IF ~set[2]
           THEN /\ findMain' = "exit2"
                /\ UNCHANGED <<slMode, fMode, dirMode, exts>>
           ELSE IF ~findFlags.f /\ Len(set[1]) > 0
           THEN /\ findMain' = "panic"
                /\ exts' = set[1]
                /\ slMode' = findFlags.sl
                /\ fMode' = findFlags.f
                /\ dirMode' = findFlags.d
           ELSE /\ exts' = set[1]
                /\ slMode' = (findFlags.sl \/ none)
                /\ fMode' = (findFlags.f \/ none)
                /\ dirMode' = (findFlags.d \/ none)
                /\ findMain' =
                     IF Len(findFlags.args) # 1 THEN "panic"
                     ELSE IF RootKind(findFlags.args[1]) # "dir" THEN "panic"
                     ELSE "walk"
    /\ UNCHANGED <<findFlags, walkPos, findOut, findErr>>

\* The walk function, lines 66-74, on the next entry of the tree.
FindWalkStep ==
    /\ FindAlone
    /\ findMain = "walk"
    /\ walkPos < Len(Tree)
    /\ walkPos' = walkPos + 1
    /\ LET ent == Tree[walkPos + 1]
       IN  IF ent.readable
           THEN /\ findOut' = findOut \o printEntity(ent, dirMode, fMode, slMode, exts)
                /\ UNCHANGED findErr
           ELSE /\ findErr' = findErr \cup {ent.path}
                /\ UNCHANGED findOut
    /\ UNCHANGED <<findFlags, slMode, fMode, dirMode, exts, findMain>>

\* filepath.Walk returns nil, line 75; main returns.
FindWalkEnd ==
    /\ FindAlone
    /\ findMain = "walk"
    /\ walkPos = Len(Tree)
    /\ findMain' = "done"
    /\ UNCHANGED <<findFlags, slMode, fMode, dirMode, exts, walkPos, findOut,
                   findErr>>

FindNext ==
    \/ FindMainStart
    \/ FindWalkStep
    \/ FindWalkEnd

(***************************************************************************)
(* myXargs: pure parts.                                                    *)
(***************************************************************************)
\* bufio.ScanLines from position pos (pos <= Len(input)): <<token, next
\* position>>. The token runs to the next newline, or to the end of the
\* input; one trailing carriage return is dropped.
RECURSIVE LineEnd(_, _)
LineEnd(input, i) ==
    IF i > Len(input) \/ input[i] = "\n" THEN i ELSE LineEnd(input, i + 1)

DropCR(tok) ==
    IF Len(tok) > 0 /\ tok[Len(tok)] = "\r" THEN SubSeq(tok, 1, Len(tok) - 1)
    ELSE tok

ScanLines(input, pos) ==
    LET e == LineEnd(input, pos)
    IN  <<DropCR(SubSeq(input, pos, e - 1)), e + 1>>

\* arr = append(arr, text), with the new argument put in front.
AppendArgFront(a, text) == <<text>> \o a

\* arr = append(arr, scanner.Text())
AppendArg(a, text) == Append(a, text)

NoCommand == [run |-> FALSE, name |-> << >>, args |-> << >>]

\* exec.Command(arr[0], arr[1:]...)
Command(a) == [run |-> TRUE, name |-> a[1], args |-> SubSeq(a, 2, Len(a))]

\* What the command wrote to its standard output and standard error.
CommandOutput(name, args) == <<"output", name, args>>

(***************************************************************************)
(* myXargs: the state machine.                                             *)
(***************************************************************************)
XInit ==
    /\ xBase \in UNION {[1..n -> {<<"e">>, <<"a">>}] : n \in 0..MaxXBase}
    /\ xStdin \in UNION {[1..n -> {"b", "\n", "\r"}] : n \in 0..MaxXStdin}
    /\ xReadErr \in BOOLEAN
    /\ xPos = 1
    /\ arr = xBase
    /\ xCmd = NoCommand
    /\ xExecErr = "none"
    /\ xMain = "scan"
    /\ xOut = << >>

\* myXargs is not running.
XIdle ==
    /\ xBase = << >>
    /\ xStdin = << >>
    /\ xReadErr = FALSE
    /\ xPos = 1
    /\ arr = << >>
    /\ xCmd = NoCommand
    /\ xExecErr = "none"
    /\ xMain = "off"
    /\ xOut = << >>

\* Lines 20-22: scanner.Scan() returns true, the line is appended.
XScan ==
    /\ XAlone
    /\ xMain = "scan"
    /\ xPos <= Len(xStdin)
    /\ LET tok == ScanLines(xStdin, xPos)
       IN  /\ arr' = AppendArg(arr, tok[1])
           /\ xPos' = tok[2]
    /\ UNCHANGED <<xBase, xStdin, xReadErr, xCmd, xExecErr, xMain, xOut>>

\* Lines 20-24: scanner.Scan() returns false; CheckErr(scanner.Err()).
XScanEnd ==
    /\ XAlone
    /\ xMain = "scan"
    /\ xPos > Len(xStdin)
    /\ xMain' = IF xReadErr THEN "panic" ELSE "exec"
    /\ UNCHANGED <<xBase, xStdin, xReadErr, xPos, arr, xCmd, xExecErr, xOut>>

\* Line 27 with nothing to run: arr[0] is out of range.
XExecEmpty ==
    /\ XAlone
    /\ xMain = "exec"
    /\ Len(arr) = 0
    /\ xMain' = "panic"
    /\ UNCHANGED <<xBase, xStdin, xReadErr, xPos, arr, xCmd, xExecErr, xOut>>

\* Lines 27-29: the command cannot be started or exits with a failure;
\* CheckErr panics and what was captured is not printed.
XExecFail ==
    /\ XAlone
    /\ xMain = "exec"
    /\ Len(arr) > 0
    /\ xCmd' = Command(arr)
    /\ xExecErr' = "failed"
    /\ xMain' = "panic"
    /\ UNCHANGED <<xBase, xStdin, xReadErr, xPos, arr, xOut>>

\* Lines 27-30: the command (an empty name starts none) runs; its combined
\* output is printed.
XExec ==
    /\ XAlone
    /\ xMain = "exec"
    /\ Len(arr) > 0
    /\ Len(arr[1]) > 0
    /\ xCmd' = Command(arr)
    /\ xOut' = CommandOutput(xCmd'.name, xCmd'.args)
    /\ xMain' = "done"
    /\ UNCHANGED <<xBase, xStdin, xReadErr, xPos, arr, xExecErr>>

XNext ==
    \/ XScan
    \/ XScanEnd
    \/ XExecEmpty
    \/ XExecFail
    \/ XExec

InitWc == WcInit /\ RotIdle /\ FindIdle /\ XIdle

SpecWc == InitWc /\ [][WcNext]_vars

InitRotate == RotInit /\ WcIdle /\ FindIdle /\ XIdle

SpecRotate == InitRotate /\ [][RotNext]_vars

InitFind == FindInit /\ WcIdle /\ RotIdle /\ XIdle

SpecFind == InitFind /\ [][FindNext]_vars

InitXargs == XInit /\ WcIdle /\ RotIdle /\ FindIdle

SpecXargs == InitXargs /\ [][XNext]_vars

(***************************************************************************)
(* Claims about myWc, checked under SpecWc.                                *)
(***************************************************************************)
WcArgSet == {wcArgs[i] : i \in 1..Len(wcArgs)}

WcValid == {p \in WcArgSet : wcKind[p] = "regular"}

WcPastJoin == wcMain \in {"print", "done"}

\* C1: with N distinct valid regular-file paths, once main is past
\* wg.Wait() the map holds exactly N entries, one per input path, each
\* carrying the count its own task computed, whatever the interleaving.
C1_FanOutKeepsEveryEntry ==
    (WcPastJoin /\ WcValid = WcArgSet) =>
        /\ DOMAIN files = WcArgSet
        /\ Cardinality(DOMAIN files) = Len(wcArgs)
        /\ \A p \in WcArgSet : files[p] = CountFile(FileLines(p), mode)

C1_Witness ==
    /\ wcMain = "done"
    /\ Len(wcArgs) >= 3
    /\ WcValid = WcArgSet
    /\ mode = 2
    /\ files[3] = 3

\* C2: every write to the shared map, the insert of a count and the removal
\* of a failed path alike, is made by a task that holds the mutex, so no two
\* tasks are inside a map write at the same time.
C2_WritesHoldMutex ==
    /\ \A t \in mapWriters : mutex = t
    /\ Cardinality(mapWriters) <= 1

WcParentReadsMap ==
    WcMainSpawn \/ WcMainRangeEnd \/ WcMainRangeFatal \/ WcMainPrint \/ WcMainDone

\* C3: main reads or iterates the shared map only when no task is still
\* running: every step in which main advances an iterator over the map is
\* taken from a state where each started task has signalled completion.
C3_ParentReadsOnlyAfterTasks ==
    [][WcParentReadsMap => \A t \in WcPaths : ~Running(t)]_vars

\* C4: for any mix of failing and valid paths the run is never cut short,
\* and once main is done the output has exactly one line for each valid
\* path, carrying its count, and none for a failing path.
C4_FailuresStayLocal ==
    /\ wcMain # "fatal"
    /\ wcMain = "done" =>
        /\ Len(wcOut) = Cardinality(WcValid)
        /\ {wcOut[i] : i \in 1..Len(wcOut)}
             = {<<CountFile(FileLines(p), mode), p>> : p \in WcValid}

(***************************************************************************)
(* Claims about myRotate, checked under SpecRotate.                        *)
(***************************************************************************)
RotTaskIds == 1..Len(rotFiles)

RotValid(t) == StatOk(rotFiles[t]) /\ getArchiveName(Info(t))[2]

\* The archive of input t as it should be: one entry, the whole content.
WholeArchive(t) ==
    [hdr |-> Header(Info(t)), body |-> Info(t).content, trl |-> Trailer(Info(t))]

\* The directory entry of t's archive name refers to the file t created.
RotOwnArchiveIn(dirf, t) ==
    /\ ArchiveName(t) \in DOMAIN dirf
    /\ dirf[ArchiveName(t)] = rotFd[t]

\* C5: if a step of building the stream fails after the archive file was
\* created (opening the source, the header, the copy, or closing the tar
\* and gzip writers), then once that input's task has finished no archive
\* file for that input remains on disk.
C5_NoPartialArchiveRemains ==
    \A t \in RotTaskIds :
        (rotPc[t] = "done" /\ rotFail[t] \in {"open", "header", "copy", "close"}) =>
            /\ ~RotOwnArchiveIn(cwdDir, t)
            /\ ~RotOwnArchiveIn(destDir, t)

RotEnded == rotMain \in {"done", "panic", "returned"}

RotNoFlag == \A i \in 1..Len(rotArgv) : rotArgv[i].k = "file"

\* C6: without -a and with a valid .log file among the arguments, the run
\* archives each valid input and leaves its archive in the working
\* directory; with a destination, each archive completed without a failure
\* is moved there.
C6_ArchiveLandsWhereAsked ==
    RotEnded =>
        /\ (RotNoFlag /\ \E i \in 1..Len(rotArgv) :
                StatOk(rotArgv[i]) /\ getArchiveName(Catalogue[rotArgv[i].f])[2]) =>
              /\ rotMain = "done"
              /\ \A t \in RotTaskIds :
                    (RotValid(t) /\ rotFail[t] = "none") =>
                        ArchiveName(t) \in DOMAIN cwdDir
        /\ (~RotNoFlag /\ rotMain = "done") =>
              \A t \in RotTaskIds :
                  (RotValid(t) /\ rotFail[t] = "none") =>
                      /\ ArchiveName(t) \in DOMAIN destDir
                      /\ ArchiveName(t) \notin DOMAIN cwdDir

RotBadDest == ParseDest(rotArgv) # "" /\ DestKind(ParseDest(rotArgv)) # "dir"

RotNothingDone ==
    /\ \A t \in RotTasks : rotPc[t] = "idle"
    /\ rotWg = 0
    /\ rotFiles = << >>
    /\ cwdDir = << >>
    /\ destDir = << >>
    /\ inodes = << >>
    /\ rotOut = {}

\* C7: a supplied destination that does not exist or is not a
\* directory ends the process in the panic outcome before any task is
\* started, so no archive file is created.
C7_BadDestPanics ==
    RotBadDest =>
        /\ RotNothingDone
        /\ rotMain \in {"start", "panic"}

\* C10: after all tasks have completed, every valid regular .log input,
\* inputs of the same base name and modification time in different
\* directories included, has an archive named {basename}_{unixModTime}.tar.gz
\* holding exactly one entry with that input's full content.
C10_EveryInputHasItsArchive ==
    rotMain = "done" =>
        \A t \in RotTaskIds :
            (RotValid(t) /\ \A u \in RotTaskIds : rotFail[u] = "none") =>
                \/ /\ ArchiveName(t) \in DOMAIN cwdDir
                   /\ inodes[cwdDir[ArchiveName(t)]] = WholeArchive(t)
                \/ /\ ArchiveName(t) \in DOMAIN destDir
                   /\ inodes[destDir[ArchiveName(t)]] = WholeArchive(t)

(***************************************************************************)
(* Claims about myFind, checked under SpecFind.                            *)
(***************************************************************************)
TimesPrinted(path) ==
    Cardinality({i \in 1..Len(findOut) : findOut[i] = PlainLine(path)})

\* C8: with -f and a non-empty sequence of extension filters, repeated
\* values included, every readable regular file the walk visits is printed
\* exactly once if its name ends with one of the filter suffixes, and not
\* at all otherwise.
C8_MatchingFilePrintedOnce ==
    (findMain = "done" /\ findFlags.f /\ Len(exts) > 0) =>
        \A k \in 1..Len(Tree) :
            (Tree[k].kind = "file" /\ Tree[k].readable) =>
                TimesPrinted(Tree[k].path) =
                    IF \E i \in 1..Len(exts) : HasSuffix(Tree[k].name, exts[i])
                    THEN 1 ELSE 0

(***************************************************************************)
(* Claims about myXargs, checked under SpecXargs.                          *)
(***************************************************************************)
\* The lines of the input: a line starts at the first character and after
\* each newline, and runs up to the next newline or the end of the input;
\* a carriage return before the newline belongs to the line ending.
LineStarts(input) == {s \in 1..Len(input) : s = 1 \/ input[s - 1] = "\n"}

LineStop(input, s) ==
    LET nl == {i \in s..Len(input) : input[i] = "\n"}
    IN  IF nl = {} THEN Len(input) + 1
        ELSE CHOOSE i \in nl : \A j \in nl : i <= j

StdinLines(input) ==
    LET starts == LineStarts(input)
        nth(k) == CHOOSE s \in starts : Cardinality({x \in starts : x < s}) = k - 1
        raw(k) == SubSeq(input, nth(k), LineStop(input, nth(k)) - 1)
    IN  [k \in 1..Cardinality(starts) |->
            IF Len(raw(k)) > 0 /\ raw(k)[Len(raw(k))] = "\r"
            THEN SubSeq(raw(k), 1, Len(raw(k)) - 1) ELSE raw(k)]

XCombined == xBase \o StdinLines(xStdin)

\* C9: the executed command's name is the first element, and its argument
\* vector the remaining elements, of the base arguments followed by the
\* standard-input lines in input order, one argument per line; a read error
\* on standard input or a failure of the command ends the process in the
\* panic outcome with nothing printed.
C9_CommandIsBaseThenLines ==
    /\ xCmd.run =>
        /\ Len(XCombined) > 0
        /\ xCmd.name = XCombined[1]
        /\ xCmd.args = Tail(XCombined)
    /\ (xReadErr /\ xMain # "scan") =>
        /\ xMain = "panic"
        /\ ~xCmd.run
    /\ xExecErr # "none" => xMain = "panic"
    /\ xMain = "panic" => xOut = << >>
    /\ xMain = "done" => (xCmd.run /\ xOut = CommandOutput(xCmd.name, xCmd.args))

C9_Witness ==
    /\ xMain = "done"
    /\ Len(xBase) >= 1
    /\ Len(StdinLines(xStdin)) >= 2
    /\ Len(xCmd.args) = Len(xBase) + 1

====
